---- MODULE Spec2Model ----
(***************************************************************************)
(* Model of siderolabs/booter: the iPXE HTTP handler                       *)
(* (internal/server/ipxe/handler.go) and the image factory client          *)
(* (internal/server/imagefactory/client.go).                               *)
(*                                                                         *)
(* Go strings are modelled as sequences of one-character strings, so that  *)
(* splitting, concatenation, formatting and substring tests are computed.  *)
(* Go slices are modelled as (array, len, cap) headers over a heap of      *)
(* backing arrays, so that aliasing between slices is observable.          *)
(***************************************************************************)
EXTENDS Integers, Sequences, FiniteSets, TLC

VARIABLES
    options,              \* HandlerOptions given to NewHandler
    configServerEnabled,  \* NewHandler's configServerEnabled parameter
    client,               \* imagefactory.Client: pxeBaseURL, secureBootEnabled
    phase,                \* "start" before NewHandler, then "serving" or "failed"
    handler,              \* the *Handler returned by NewHandler (nil before and on error)
    newHandlerErr,        \* the error returned by NewHandler
    startup,              \* what the startup steps did: init script built, binaries patched
    heap,                 \* backing arrays of the []string slices
    tasks,                \* one record per request-handling goroutine
    served,               \* the request answered last, with its gateway calls and response
    urlCall,              \* a direct call of Client.GetIPXEURL: arguments and result
    verCall               \* a direct call of Client.GetLatestStableVersion: listing and result

vars == <<options, configServerEnabled, client, phase, handler, newHandlerErr,
          startup, heap, tasks, served, urlCall, verCall>>

-----------------------------------------------------------------------------
(* Bounds of the model *)

\* number of request-handling goroutines that can be in flight at once
NumTasks == 2

\* maximum number of entries in the version listing of the image factory
MaxVersions == 3

-----------------------------------------------------------------------------
(* Strings *)

Digits == {"0", "1", "2", "3", "4", "5", "6", "7", "8", "9"}

LowerLetters == {"a", "b", "c", "d", "e", "f", "g", "h", "i", "j", "k", "l", "m",
                 "n", "o", "p", "q", "r", "s", "t", "u", "v", "w", "x", "y", "z"}

UpperLetters == {"A", "B", "C", "D", "E", "F", "G", "H", "I", "J", "K", "L", "M",
                 "N", "O", "P", "Q", "R", "S", "T", "U", "V", "W", "X", "Y", "Z"}

\* unicode.IsSpace on the ASCII range
SpaceChars == {" ", "\t", "\n", "\r", "\f"}

DigitValue(c) ==
    CASE c = "0" -> 0 [] c = "1" -> 1 [] c = "2" -> 2 [] c = "3" -> 3 [] c = "4" -> 4
      [] c = "5" -> 5 [] c = "6" -> 6 [] c = "7" -> 7 [] c = "8" -> 8 [] c = "9" -> 9

DigitChar(d) ==
    CASE d = 0 -> "0" [] d = 1 -> "1" [] d = 2 -> "2" [] d = 3 -> "3" [] d = 4 -> "4"
      [] d = 5 -> "5" [] d = 6 -> "6" [] d = 7 -> "7" [] d = 8 -> "8" [] d = 9 -> "9"

\* strings.Contains
Contains(s, sub) ==
    \E i \in 0..(Len(s) - Len(sub)) : SubSeq(s, i + 1, i + Len(sub)) = sub

\* strings.ContainsAny
ContainsAny(s, chars) == \E i \in 1..Len(s) : s[i] \in chars

\* strings.HasPrefix
HasPrefix(s, p) == Len(s) >= Len(p) /\ SubSeq(s, 1, Len(p)) = p

\* strings.IndexRune: 1-based position of the first c in s, 0 when absent
IndexRune(s, c) ==
    IF \E i \in 1..Len(s) : s[i] = c
    THEN CHOOSE i \in 1..Len(s) : s[i] = c /\ \A j \in 1..(i - 1) : s[j] # c
    ELSE 0

RECURSIVE FieldsFrom(_, _, _, _)
FieldsFrom(s, i, cur, acc) ==
    IF i > Len(s)
    THEN IF cur # <<>> THEN Append(acc, cur) ELSE acc
    ELSE IF s[i] \in SpaceChars
         THEN FieldsFrom(s, i + 1, <<>>, IF cur # <<>> THEN Append(acc, cur) ELSE acc)
         ELSE FieldsFrom(s, i + 1, Append(cur, s[i]), acc)

\* strings.Fields: the maximal runs of non-space characters, in order
Fields(s) == FieldsFrom(s, 1, <<>>, <<>>)

RECURSIVE SplitFrom(_, _, _, _, _, _)
SplitFrom(s, sep, n, i, cur, acc) ==
    IF i > Len(s) THEN Append(acc, cur)
    ELSE IF s[i] = sep /\ (n <= 0 \/ Len(acc) + 1 < n)
         THEN SplitFrom(s, sep, n, i + 1, <<>>, Append(acc, cur))
         ELSE SplitFrom(s, sep, n, i + 1, Append(cur, s[i]), acc)

\* strings.SplitN with a one-character separator (n = -1 is strings.Split)
SplitN(s, sep, n) == SplitFrom(s, sep, n, 1, <<>>, <<>>)

RECURSIVE Join(_, _)
\* strings.Join
Join(parts, sep) ==
    IF parts = <<>> THEN <<>>
    ELSE IF Len(parts) = 1 THEN parts[1]
    ELSE parts[1] \o sep \o Join(Tail(parts), sep)

RECURSIVE TrimLeft(_, _)
\* strings.TrimLeft
TrimLeft(s, chars) ==
    IF s # <<>> /\ s[1] \in chars THEN TrimLeft(Tail(s), chars) ELSE s

RECURSIVE TrimRight(_, _)
TrimRight(s, chars) ==
    IF s # <<>> /\ s[Len(s)] \in chars THEN TrimRight(SubSeq(s, 1, Len(s) - 1), chars) ELSE s

\* strings.TrimSpace
TrimSpace(s) == TrimRight(TrimLeft(s, SpaceChars), SpaceChars)

\* strings.TrimPrefix
TrimPrefix(s, p) == IF HasPrefix(s, p) THEN SubSeq(s, Len(p) + 1, Len(s)) ELSE s

RECURSIVE ParseUint(_)
\* strconv.ParseUint(s, 10, 64) on a non-empty string of digits
ParseUint(s) ==
    IF s = <<>> THEN 0
    ELSE 10 * ParseUint(SubSeq(s, 1, Len(s) - 1)) + DigitValue(s[Len(s)])

RECURSIVE Itoa(_)
\* strconv.Itoa / strconv.FormatUint(n, 10) for n >= 0
Itoa(n) ==
    IF n < 10 THEN <<DigitChar(n)>>
    ELSE Itoa(n \div 10) \o <<DigitChar(n % 10)>>

\* a Go error value: nil, or an error with its Error() text
NoError == [nil |-> TRUE, msg |-> <<>>]
Errorf(text) == [nil |-> FALSE, msg |-> text]

-----------------------------------------------------------------------------
(* Slices over a heap of backing arrays *)

\* a nil slice
NilSlice == [arr |-> 0, len |-> 0, cap |-> 0]

\* the elements of slice s
SliceVal(h, s) == IF s.len = 0 THEN <<>> ELSE SubSeq(h[s.arr], 1, s.len)

\* make([]string, len(vals)) filled with vals: a new backing array at the unused
\* address a, cap = len (a zero-length allocation has no backing array of its own)
MakeSlice(h, a, vals) ==
    IF vals = <<>> THEN [heap |-> h, slice |-> NilSlice] ELSE
    [heap  |-> [x \in DOMAIN h \cup {a} |-> IF x = a THEN vals ELSE h[x]],
     slice |-> [arr |-> a, len |-> Len(vals), cap |-> Len(vals)]]

\* the backing array of slice s becomes unreachable
Release(h, s) == [x \in DOMAIN h \ {s.arr} |-> h[x]]

\* the empty cells of a backing array
RECURSIVE ZeroCells(_)
ZeroCells(n) == IF n <= 0 THEN <<>> ELSE <<(<<>>)>> \o ZeroCells(n - 1)

\* runtime growslice for a small slice: doubling, or the needed length if larger
GrowCap(oldcap, newlen) == IF newlen > 2 * oldcap THEN newlen ELSE 2 * oldcap

\* append(s, vals...): in place when the capacity suffices, else in a new array
\* at the unused address a
AppendSlice(h, a, s, vals) ==
    LET newlen == s.len + Len(vals) IN
    IF newlen <= s.cap
    THEN [heap  |-> [h EXCEPT ![s.arr] =
                        [i \in 1..s.cap |->
                            IF i > s.len /\ i <= newlen THEN vals[i - s.len] ELSE @[i]]],
          slice |-> [s EXCEPT !.len = newlen]]
    ELSE LET c == GrowCap(s.cap, newlen)
         IN  [heap  |-> [x \in DOMAIN h \cup {a} |->
                            IF x = a
                            THEN SliceVal(h, s) \o vals \o ZeroCells(c - newlen)
                            ELSE h[x]],
              slice |-> [arr |-> a, len |-> newlen, cap |-> c]]

\* append(s1, vals...) in the place of slices.Concat
ConcatByAppend(h, a, s1, vals) == AppendSlice(h, a, s1, vals)

\* slices.Concat(s1, vals): always a new backing array (at the unused address a)
\* of exactly the joint length
Concat(h, a, s1, vals) == MakeSlice(h, a, SliceVal(h, s1) \o vals)

-----------------------------------------------------------------------------
(* github.com/blang/semver/v4, as Client.GetLatestStableVersion uses it *)

numbers == Digits
alphanum == LowerLetters \cup UpperLetters \cup {"-"} \cup Digits

containsOnly(s, chars) == \A i \in 1..Len(s) : s[i] \in chars
hasLeadingZeroes(s) == Len(s) > 1 /\ s[1] = "0"

\* strconv.ParseUint succeeds (the inputs of the model stay far below 2^64)
IsUint(s) == s # <<>> /\ containsOnly(s, numbers)

\* a numeric component of Parse: digits only, no leading zeroes
IsNumber(s) == IsUint(s) /\ ~hasLeadingZeroes(s)

\* semver.NewPRVersion
PRVersionOK(s) ==
    /\ s # <<>>
    /\ IF containsOnly(s, numbers) THEN ~hasLeadingZeroes(s) ELSE containsOnly(s, alphanum)

NewPRVersion(s) ==
    IF containsOnly(s, numbers)
    THEN [VersionStr |-> <<>>, VersionNum |-> ParseUint(s), IsNum |-> TRUE]
    ELSE [VersionStr |-> s, VersionNum |-> 0, IsNum |-> FALSE]

NoVersion == [Major |-> 0, Minor |-> 0, Patch |-> 0, Pre |-> <<>>, Build |-> <<>>]
ParseError == [ok |-> FALSE, v |-> NoVersion]

\* semver.Parse
Parse(s) ==
    LET parts    == SplitN(s, ".", 3)
        rest     == parts[3]
        buildIdx == IndexRune(rest, "+")
        build    == IF buildIdx # 0
                    THEN SplitN(SubSeq(rest, buildIdx + 1, Len(rest)), ".", -1)
                    ELSE <<>>
        rest1    == IF buildIdx # 0 THEN SubSeq(rest, 1, buildIdx - 1) ELSE rest
        preIdx   == IndexRune(rest1, "-")
        pre      == IF preIdx # 0
                    THEN SplitN(SubSeq(rest1, preIdx + 1, Len(rest1)), ".", -1)
                    ELSE <<>>
        patchStr == IF preIdx # 0 THEN SubSeq(rest1, 1, preIdx - 1) ELSE rest1
    IN
    IF s = <<>> THEN ParseError
    ELSE IF Len(parts) # 3 THEN ParseError
    ELSE IF ~IsNumber(parts[1]) \/ ~IsNumber(parts[2]) \/ ~IsNumber(patchStr) THEN ParseError
    ELSE IF \E i \in 1..Len(pre) : ~PRVersionOK(pre[i]) THEN ParseError
    ELSE IF \E i \in 1..Len(build) : build[i] = <<>> \/ ~containsOnly(build[i], alphanum)
    THEN ParseError
    ELSE [ok |-> TRUE,
          v  |-> [Major |-> ParseUint(parts[1]),
                  Minor |-> ParseUint(parts[2]),
                  Patch |-> ParseUint(patchStr),
                  Pre   |-> [i \in 1..Len(pre) |-> NewPRVersion(pre[i])],
                  Build |-> build]]

\* ParseTolerant's removal of leading zeros from one dot-separated part
StripZeros(p) ==
    IF Len(p) > 1
    THEN LET q == TrimLeft(p, {"0"}) IN
         IF q = <<>> \/ q[1] \notin Digits THEN <<"0">> \o q ELSE q
    ELSE p

\* semver.ParseTolerant
ParseTolerant(str) ==
    LET s     == TrimPrefix(TrimSpace(str), <<"v">>)
        split == SplitN(s, ".", 3)
        parts == [i \in 1..Len(split) |-> StripZeros(split[i])]
        full  == IF Len(parts) = 1 THEN parts \o << <<"0">>, <<"0">> >>
                 ELSE IF Len(parts) = 2 THEN parts \o << <<"0">> >>
                 ELSE parts
    IN
    IF Len(parts) < 3 /\ ContainsAny(parts[Len(parts)], {"+", "-"})
    THEN ParseError
    ELSE Parse(Join(full, <<".">>))

AsciiOrder == <<"-","0","1","2","3","4","5","6","7","8","9","A","B","C","D","E","F","G","H","I","J",
                "K","L","M","N","O","P","Q","R","S","T","U","V","W","X","Y","Z","a","b","c","d","e","f","g","h","i","j","k","l","m","n","o","p","q","r","s","t","u","v","w","x","y","z">>
Rank(c) == CHOOSE i \in 1..Len(AsciiOrder) : AsciiOrder[i] = c

CompareInt(a, b) == IF a = b THEN 0 ELSE IF a > b THEN 1 ELSE -1

RECURSIVE CompareStr(_, _)
\* Go's comparison of strings, byte by byte
CompareStr(a, b) ==
    IF a = <<>> /\ b = <<>> THEN 0
    ELSE IF a = <<>> THEN -1
    ELSE IF b = <<>> THEN 1
    ELSE IF a[1] # b[1] THEN CompareInt(Rank(a[1]), Rank(b[1]))
    ELSE CompareStr(Tail(a), Tail(b))

\* semver.PRVersion.Compare
ComparePR(v, o) ==
    IF v.IsNum /\ ~o.IsNum THEN -1
    ELSE IF ~v.IsNum /\ o.IsNum THEN 1
    ELSE IF v.IsNum /\ o.IsNum THEN CompareInt(v.VersionNum, o.VersionNum)
    ELSE CompareStr(v.VersionStr, o.VersionStr)

RECURSIVE ComparePre(_, _, _)
ComparePre(vp, op, i) ==
    IF i > Len(vp) /\ i > Len(op) THEN 0
    ELSE IF i > Len(vp) THEN -1
    ELSE IF i > Len(op) THEN 1
    ELSE IF ComparePR(vp[i], op[i]) # 0 THEN ComparePR(vp[i], op[i])
    ELSE ComparePre(vp, op, i + 1)

\* semver.Version.Compare: build metadata takes no part
Compare(v, o) ==
    IF v.Major # o.Major THEN CompareInt(v.Major, o.Major)
    ELSE IF v.Minor # o.Minor THEN CompareInt(v.Minor, o.Minor)
    ELSE IF v.Patch # o.Patch THEN CompareInt(v.Patch, o.Patch)
    ELSE IF Len(v.Pre) = 0 /\ Len(o.Pre) = 0 THEN 0
    ELSE IF Len(v.Pre) = 0 THEN 1
    ELSE IF Len(o.Pre) = 0 THEN -1
    ELSE ComparePre(v.Pre, o.Pre, 1)

\* semver.Version.GT
GT(v, o) == Compare(v, o) = 1

PRString(pr) == IF pr.IsNum THEN Itoa(pr.VersionNum) ELSE pr.VersionStr

\* semver.Version.String
VersionString(v) ==
    Itoa(v.Major) \o <<".">> \o Itoa(v.Minor) \o <<".">> \o Itoa(v.Patch)
      \o (IF Len(v.Pre) > 0
          THEN <<"-">> \o Join([i \in 1..Len(v.Pre) |-> PRString(v.Pre[i])], <<".">>)
          ELSE <<>>)
      \o (IF Len(v.Build) > 0 THEN <<"+">> \o Join(v.Build, <<".">>) ELSE <<>>)

-----------------------------------------------------------------------------
(* internal/server/imagefactory/client.go *)

\* what the image factory service does with one SchematicCreate request
FactoryOutcomes ==
    { [kind |-> "ok",         id |-> <<"s","c","h","-","a">>, cause |-> <<>>],
      [kind |-> "ok",         id |-> <<>>,     cause |-> <<>>],
      [kind |-> "createErr",  id |-> <<>>,     cause |-> <<"c","o","n","t","e","x","t"," ","d","e",
                                                           "a","d","l","i","n","e"," ","e","x","c","e","e","d","e","d">>],
      [kind |-> "marshalErr", id |-> <<>>,     cause |-> <<"c","a","n","n","o","t"," ","m","a","r",
                                                           "s","h","a","l">>] }

\* the factory is not asked at all
NotAsked == [kind |-> "none", id |-> <<>>, cause |-> <<>>]

\* Client.EnsureSchematic: one SchematicCreate call under a 10 s timeout
EnsureSchematic(extensions, extraKernelArgs, fo) ==
    IF fo.kind = "marshalErr"
    THEN [val |-> <<>>, err |-> Errorf(<<"f","a","i","l","e","d"," ","t","o"," ","m","a","r","s",
                                         "h","a","l"," ","s","c","h","e","m","a","t","i","c",":"," ">> \o fo.cause)]
    ELSE IF fo.kind = "createErr"
    THEN [val |-> <<>>, err |-> Errorf(<<"f","a","i","l","e","d"," ","t","o"," ","c","r","e","a",
                                         "t","e"," ","s","c","h","e","m","a","t","i","c",":"," ">> \o fo.cause)]
    ELSE [val |-> fo.id, err |-> NoError]

\* GetIPXEURL without its check of the architecture
GetIPXEURLNoArchCheck(c, schematicID, talosVersion, arch) ==
    IF schematicID = <<>>
    THEN [val |-> <<>>, err |-> Errorf(<<"s","c","h","e","m","a","t","i","c"," ","I","D"," ","i",
                                         "s"," ","r","e","q","u","i","r","e","d">>)]
    ELSE IF talosVersion = <<>>
    THEN [val |-> <<>>, err |-> Errorf(<<"t","a","l","o","s"," ","v","e","r","s","i","o","n"," ",
                                         "i","s"," ","r","e","q","u","i","r","e","d">>)]
    ELSE LET ipxeURL == c.pxeBaseURL \o <<"/","p","x","e",
                                          "/">> \o schematicID \o <<"/">> \o talosVersion
                            \o <<"/","m","e","t","a","l","-">> \o arch
         IN  [val |-> IF c.secureBootEnabled THEN ipxeURL \o <<"-","s","e","c","u","r","e","b","o",
                                                               "o","t">> ELSE ipxeURL,
              err |-> NoError]

\* Client.GetIPXEURL
GetIPXEURL(c, schematicID, talosVersion, arch) ==
    IF schematicID = <<>>
    THEN [val |-> <<>>, err |-> Errorf(<<"s","c","h","e","m","a","t","i","c"," ","I","D"," ","i",
                                         "s"," ","r","e","q","u","i","r","e","d">>)]
    ELSE IF talosVersion = <<>>
    THEN [val |-> <<>>, err |-> Errorf(<<"t","a","l","o","s"," ","v","e","r","s","i","o","n"," ",
                                         "i","s"," ","r","e","q","u","i","r","e","d">>)]
    ELSE IF arch = <<>>
    THEN [val |-> <<>>, err |-> Errorf(<<"a","r","c","h"," ","i","s"," ","r","e","q","u","i","r",
                                         "e","d">>)]
    ELSE LET ipxeURL == c.pxeBaseURL \o <<"/","p","x","e",
                                          "/">> \o schematicID \o <<"/">> \o talosVersion
                            \o <<"/","m","e","t","a","l","-">> \o arch
         IN  [val |-> IF c.secureBootEnabled THEN ipxeURL \o <<"-","s","e","c","u","r","e","b","o",
                                                               "o","t">> ELSE ipxeURL,
              err |-> NoError]

\* a test that lets pre-releases through
NeverPreRelease(sv) == FALSE

\* the pre-release test of GetLatestStableVersion: len(sv.Pre) > 0
IsPreRelease(sv) == Len(sv.Pre) > 0

\* whether the loop of GetLatestStableVersion replaces its candidate by sv
Replaces(latestStable, sv) == latestStable.nil \/ GT(sv, latestStable.v)

RECURSIVE LatestStableFrom(_, _, _)
\* the loop of GetLatestStableVersion over versions[i..], latestStable being a
\* *semver.Version ([nil |-> TRUE] for the nil pointer)
LatestStableFrom(versions, i, latestStable) ==
    IF i > Len(versions) THEN latestStable
    ELSE LET parsed == ParseTolerant(versions[i]) IN
         IF ~parsed.ok THEN LatestStableFrom(versions, i + 1, latestStable)
         ELSE IF IsPreRelease(parsed.v) THEN LatestStableFrom(versions, i + 1, latestStable)
         ELSE IF Replaces(latestStable, parsed.v)
         THEN LatestStableFrom(versions, i + 1, [nil |-> FALSE, v |-> parsed.v])
         ELSE LatestStableFrom(versions, i + 1, latestStable)

\* Client.GetLatestStableVersion; listing is what factoryClient.Versions returns
GetLatestStableVersion(listing) ==
    LET latestStable == LatestStableFrom(listing.versions, 1, [nil |-> TRUE, v |-> NoVersion])
    IN
    IF ~listing.err.nil THEN [val |-> <<>>, err |-> listing.err]
    ELSE IF latestStable.nil THEN [val |-> <<>>, err |-> Errorf(<<"n","o"," ","s","t","a","b","l",
                                                                  "e"," ","v","e","r","s","i","o","n","s"," ","f","o","u","n","d">>)]
    ELSE [val |-> VersionString(latestStable.v), err |-> NoError]

-----------------------------------------------------------------------------
(* internal/server/ipxe/handler.go *)

archArm64 == <<"a","r","m","6","4">>
archAmd64 == <<"a","m","d","6","4">>
initScriptName == <<"i","n","i","t",".","i","p","x","e">>
bootScriptName == <<"b","o","o","t",".","i","p","x","e">>

\* fmt.Sprintf(ipxeScriptTemplateFormat, url)
ipxeScriptTemplateFormat(url) == <<"#","!","i","p","x","e","\n","c","h","a","i","n"," ","-","-","r",
                                   "e","p","l","a","c","e"," ">> \o url \o <<"\n">>

StatusOK == 200
StatusNotFound == 404
StatusInternalServerError == 500

\* net.JoinHostPort
JoinHostPort(host, port) ==
    IF ContainsAny(host, {":", "%"})
    THEN <<"[">> \o host \o <<"]",":">> \o port
    ELSE host \o <<":">> \o port

\* the talos.config kernel argument computed at the top of NewHandler
talosConfigKernelArg(o) ==
    <<"t","a","l","o","s",".","c","o","n","f","i","g","=">> \o <<"h","t","t","p",":","/","/">>
        \o JoinHostPort(o.APIAdvertiseAddress, Itoa(o.APIPort)) \o <<"/","c","o","n","f","i","g",
                                                                     "?","u","=","$","{","u","u","i","d","}">>

\* buildInitScript(address, port): the script on success, an error otherwise
buildInitScript(address, port, ok) ==
    IF ok
    THEN [script |-> <<"#","!","i","p","x","e"," ","i","n","i","t",
                       " ">> \o JoinHostPort(address, Itoa(port)) \o <<"\n">>,
          err    |-> NoError]
    ELSE [script |-> <<>>, err |-> Errorf(<<"t","e","m","p","l","a","t","e"," ","f","a","i","l","e",
                                            "d">>)]

\* patchBinaries(ctx, initScript, logger): nil on success, an error otherwise
patchBinaries(initScript, ok) ==
    IF ok THEN NoError ELSE Errorf(<<"f","a","i","l","e","d"," ","t","o"," ","p","a","t","c","h",
                                     " ","b","i","n","a","r","i","e","s">>)

\* the nil *Handler
NilHandler ==
    [nil |-> TRUE, options |-> <<>>, kernelArgs |-> NilSlice, initScript |-> <<>>]

\* NewHandler's check of the options: a schematic ID excludes extensions and extra args
InvalidOptionsExtensionsOnly(o) ==
    o.SchematicID # <<>> /\ Len(o.Extensions) > 0

InvalidOptions(o) ==
    o.SchematicID # <<>> /\ (Len(o.Extensions) > 0 \/ Len(o.ExtraKernelArgs) > 0)

\* addresses of the backing arrays: the allocator hands out any unused address, and
\* the model takes a fixed one per owner
HandlerArr == 1
GrownArr == 2
TaskArr(t) == 2 + t

\* kernelArgs := strings.Fields(options.ExtraKernelArgs), plus the talos.config
\* argument when the config server is enabled; the outgrown array is garbage
BaseKernelArgs(h, o, enabled) ==
    LET f == MakeSlice(h, HandlerArr, Fields(o.ExtraKernelArgs)) IN
    IF enabled
    THEN LET a == AppendSlice(f.heap, GrownArr, f.slice, <<talosConfigKernelArg(o)>>) IN
         IF a.slice.arr # f.slice.arr
         THEN [heap |-> Release(a.heap, f.slice), slice |-> a.slice]
         ELSE a
    ELSE f

NewHandler(buildOK, patchOK) ==
    /\ phase = "start"
    /\ LET built == buildInitScript(options.APIAdvertiseAddress, options.APIPort, buildOK)
           perr  == patchBinaries(built.script, patchOK)
           ka    == BaseKernelArgs(heap, options, configServerEnabled)
       IN
       IF InvalidOptions(options)
       THEN /\ newHandlerErr' =
                  Errorf(<<"s","c","h","e","m","a","t","i","c","I","D"," ","c","a","n","n","o","t",
                           " ","b","e"," ","u","s","e","d"," ","w","i","t","h"," ","e","x","t","e","n","s","i","o","n","s"," ","o","r"," ","e","x","t","r","a","K","e","r","n","e","l","A","r","g","s">>)
            /\ phase' = "failed"
            /\ UNCHANGED <<handler, startup, heap>>
       ELSE IF ~built.err.nil
       THEN /\ newHandlerErr' = Errorf(<<"f","a","i","l","e","d"," ","t","o"," ","b","u","i","l",
                                         "d"," ","i","n","i","t"," ","s","c","r","i","p","t",":"," ">> \o built.err.msg)
            /\ phase' = "failed"
            /\ UNCHANGED <<handler, startup, heap>>
       ELSE IF ~perr.nil
       THEN /\ newHandlerErr' = perr
            /\ phase' = "failed"
            /\ startup' = [initScript |-> built.script, built |-> TRUE, patched |-> FALSE]
            /\ UNCHANGED <<handler, heap>>
       ELSE /\ newHandlerErr' = NoError
            /\ phase' = "serving"
            /\ startup' = [initScript |-> built.script, built |-> TRUE, patched |-> TRUE]
            /\ heap' = ka.heap
            /\ handler' = [nil        |-> FALSE,
                           options    |-> options,
                           kernelArgs |-> ka.slice,
                           initScript |-> built.script]
    /\ UNCHANGED <<options, configServerEnabled, client, tasks, served, urlCall, verCall>>

\* a switch that takes every other name for the boot script
RouteDefaultBoot(script) ==
    IF script = initScriptName THEN "init" ELSE "boot"

\* the switch on req.PathValue("script") at the top of ServeHTTP
Route(script) ==
    IF script = initScriptName THEN "init"
    ELSE IF script = bootScriptName THEN "boot"
    ELSE "default"

\* a policy that coerces only the architectures that are given
NormalizeArchKeepEmpty(raw) ==
    IF raw = <<>> THEN raw ELSE IF raw # archArm64 THEN archAmd64 ELSE raw

\* the two-bucket architecture policy of ServeHTTP
NormalizeArch(raw) == IF raw # archArm64 THEN archAmd64 ELSE raw

\* consoleKernelArgs with the two serial consoles exchanged
consoleKernelArgsSwapped(arch) ==
    IF arch = archArm64
    THEN << <<"c","o","n","s","o","l","e","=","t","t","y","0">>, <<"c","o","n","s","o","l","e","=",
              "t","t","y","S","0">> >>
    ELSE << <<"c","o","n","s","o","l","e","=","t","t","y","0">>, <<"c","o","n","s","o","l","e","=",
              "t","t","y","A","M","A","0">> >>

\* Handler.consoleKernelArgs
consoleKernelArgs(arch) ==
    IF arch = archArm64
    THEN << <<"c","o","n","s","o","l","e","=","t","t","y","0">>, <<"c","o","n","s","o","l","e","=",
              "t","t","y","A","M","A","0">> >>
    ELSE << <<"c","o","n","s","o","l","e","=","t","t","y","0">>, <<"c","o","n","s","o","l","e","=",
              "t","t","y","S","0">> >>

\* http.ResponseWriter: nothing written yet
NoResponse == [status |-> 0, contentType |-> <<>>, body |-> <<>>]

\* ResponseWriter.WriteHeader: the first status written stands
WriteHeader(w, code) == IF w.status = 0 THEN [w EXCEPT !.status = code] ELSE w

\* ResponseWriter.Write: an implicit WriteHeader(200), then the bytes
Write(w, bytes) == [WriteHeader(w, StatusOK) EXCEPT !.body = @ \o bytes]

\* handleInitScript sending the header without the script
handleInitScriptHeaderOnly(hd, w) ==
    WriteHeader([w EXCEPT !.contentType = <<"t","e","x","t","/","p","l","a","i","n">>], StatusOK)

\* Handler.handleInitScript
handleInitScript(hd, w) ==
    Write([w EXCEPT !.contentType = <<"t","e","x","t","/","p","l","a","i","n">>], hd.initScript)

\* one logged call on the ImageFactoryClient interface
Call(op, args, res) == [op |-> op, args |-> args, val |-> res.val, err |-> res.err]

\* bootViaFactoryIPXEScript asking the factory a second time after a failure
bootViaFactoryRetrying(hd, cl, arch, kernelArgs, fo) ==
    LET fixed   == hd.options.SchematicID
        ensured == EnsureSchematic(hd.options.Extensions, kernelArgs, fo)
        call    == Call("EnsureSchematic", <<hd.options.Extensions, kernelArgs>>, ensured)
        calls1  == IF fixed # <<>> THEN <<>>
                   ELSE IF ensured.err.nil THEN <<call>> ELSE <<call, call>>
        id      == IF fixed = <<>> THEN ensured.val ELSE fixed
        url     == GetIPXEURL(cl, id, hd.options.TalosVersion, arch)
        calls2  == Append(calls1,
                          Call("GetIPXEURL", <<id, hd.options.TalosVersion, arch>>, url))
    IN
    IF fixed = <<>> /\ ~ensured.err.nil
    THEN [body |-> <<>>, statusCode |-> StatusInternalServerError,
          err  |-> Errorf(<<"f","a","i","l","e","d"," ","t","o"," ","g","e","t"," ","s","c","h","e",
                            "m","a","t","i","c"," ","I","P","X","E"," ","U","R","L",":"," ">> \o ensured.err.msg),
          calls |-> calls1]
    ELSE IF ~url.err.nil
    THEN [body |-> <<>>, statusCode |-> StatusInternalServerError,
          err  |-> Errorf(<<"f","a","i","l","e","d"," ","t","o"," ","g","e","t"," ","s","c","h","e",
                            "m","a","t","i","c"," ","I","P","X","E"," ","U","R","L",":"," ">> \o url.err.msg),
          calls |-> calls2]
    ELSE [body |-> ipxeScriptTemplateFormat(url.val), statusCode |-> StatusOK,
          err  |-> NoError, calls |-> calls2]

\* bootViaFactoryIPXEScript rendering the template without looking at GetIPXEURL's error
bootViaFactoryIgnoringURLError(hd, cl, arch, kernelArgs, fo) ==
    LET fixed   == hd.options.SchematicID
        ensured == EnsureSchematic(hd.options.Extensions, kernelArgs, fo)
        calls1  == IF fixed = <<>>
                   THEN << Call("EnsureSchematic",
                                <<hd.options.Extensions, kernelArgs>>, ensured) >>
                   ELSE <<>>
        id      == IF fixed = <<>> THEN ensured.val ELSE fixed
        url     == GetIPXEURL(cl, id, hd.options.TalosVersion, arch)
        calls2  == Append(calls1,
                          Call("GetIPXEURL", <<id, hd.options.TalosVersion, arch>>, url))
    IN
    IF fixed = <<>> /\ ~ensured.err.nil
    THEN [body |-> <<>>, statusCode |-> StatusInternalServerError,
          err  |-> Errorf(<<"f","a","i","l","e","d"," ","t","o"," ","g","e","t"," ","s","c","h","e",
                            "m","a","t","i","c"," ","I","P","X","E"," ","U","R","L",":"," ">> \o ensured.err.msg),
          calls |-> calls1]
    ELSE [body |-> ipxeScriptTemplateFormat(url.val), statusCode |-> StatusOK,
          err  |-> NoError, calls |-> calls2]

\* Handler.bootViaFactoryIPXEScript; fo is what the factory answers if it is asked
bootViaFactoryIPXEScript(hd, cl, arch, kernelArgs, fo) ==
    LET fixed   == hd.options.SchematicID
        ensured == EnsureSchematic(hd.options.Extensions, kernelArgs, fo)
        calls1  == IF fixed = <<>>
                   THEN << Call("EnsureSchematic",
                                <<hd.options.Extensions, kernelArgs>>, ensured) >>
                   ELSE <<>>
        id      == IF fixed = <<>> THEN ensured.val ELSE fixed
        url     == GetIPXEURL(cl, id, hd.options.TalosVersion, arch)
        calls2  == Append(calls1,
                          Call("GetIPXEURL", <<id, hd.options.TalosVersion, arch>>, url))
    IN
    IF fixed = <<>> /\ ~ensured.err.nil
    THEN [body |-> <<>>, statusCode |-> StatusInternalServerError,
          err  |-> Errorf(<<"f","a","i","l","e","d"," ","t","o"," ","g","e","t"," ","s","c","h","e",
                            "m","a","t","i","c"," ","I","P","X","E"," ","U","R","L",":"," ">> \o ensured.err.msg),
          calls |-> calls1]
    ELSE IF ~url.err.nil
    THEN [body |-> <<>>, statusCode |-> StatusInternalServerError,
          err  |-> Errorf(<<"f","a","i","l","e","d"," ","t","o"," ","g","e","t"," ","s","c","h","e",
                            "m","a","t","i","c"," ","I","P","X","E"," ","U","R","L",":"," ">> \o url.err.msg),
          calls |-> calls2]
    ELSE [body |-> ipxeScriptTemplateFormat(url.val), statusCode |-> StatusOK,
          err  |-> NoError, calls |-> calls2]

\* a goroutine slot with no request in flight
IdleTask ==
    [pc |-> "idle", script |-> <<>>, archQuery |-> <<>>, arch |-> <<>>,
     kernelArgs |-> NilSlice]

\* no request has been answered yet
NothingServed ==
    [done |-> FALSE, script |-> <<>>, archQuery |-> <<>>, arch |-> <<>>,
     passed |-> <<>>, calls |-> <<>>, factory |-> "none", repeated |-> FALSE,
     resp |-> NoResponse]

Tasks == 1..NumTasks

\* an answered request, as the client and the gateway saw it; repeated records
\* that the request answered just before it had the factory resolve the very same
\* extensions and kernel arguments successfully
Served(task, passed, calls, factory, resp) ==
    [done |-> TRUE, script |-> task.script, archQuery |-> task.archQuery,
     arch |-> task.arch, passed |-> passed, calls |-> calls, factory |-> factory,
     repeated |-> /\ served.factory = "ok"
                  /\ factory # "none"
                  /\ served.passed = passed,
     resp |-> resp]

\* ServeHTTP up to the call of bootViaFactoryIPXEScript: the unknown-script and
\* init-script requests are answered here, a boot request has its arguments built
\* (the uuid and mac query values only reach the log; resp is what the handler gives
\* to the ResponseWriter, a failing Write being logged and nothing more)
ServeHTTP(t, script, archQuery) ==
    /\ phase = "serving"
    /\ tasks[t].pc = "idle"
    /\ LET req  == [IdleTask EXCEPT !.script = script, !.archQuery = archQuery]
           arch == NormalizeArch(archQuery)
           ka   == Concat(heap, TaskArr(t), handler.kernelArgs, consoleKernelArgs(arch))
       IN
       IF Route(script) = "default"
       THEN /\ served' = Served(req, <<>>, <<>>, "none",
                                WriteHeader(NoResponse, StatusNotFound))
            /\ UNCHANGED <<tasks, heap>>
       ELSE IF Route(script) = "init"
       THEN /\ served' = Served(req, <<>>, <<>>, "none",
                                handleInitScript(handler, NoResponse))
            /\ UNCHANGED <<tasks, heap>>
       ELSE /\ tasks' = [tasks EXCEPT ![t] =
                  [req EXCEPT !.pc = "boot", !.arch = arch, !.kernelArgs = ka.slice]]
            /\ heap' = ka.heap
            /\ UNCHANGED served
    /\ UNCHANGED <<options, configServerEnabled, client, phase, handler, newHandlerErr,
                   startup, urlCall, verCall>>

\* the factory is asked only when no schematic ID is configured
FactoryInputs == IF handler.options.SchematicID = <<>> THEN FactoryOutcomes ELSE {NotAsked}

\* the rest of ServeHTTP for a boot request: bootViaFactoryIPXEScript reads the
\* kernel arguments from their backing array, and the response is written
ServeBoot(t, fo) ==
    /\ phase = "serving"
    /\ tasks[t].pc = "boot"
    /\ fo \in FactoryInputs
    /\ LET task   == tasks[t]
           passed == SliceVal(heap, task.kernelArgs)
           r      == bootViaFactoryIPXEScript(handler, client, task.arch, passed, fo)
           w      == IF ~r.err.nil
                     THEN Write(WriteHeader(NoResponse, StatusInternalServerError),
                                <<"f","a","i","l","e","d"," ","t","o"," ","g","e","t"," ","i","P",
                                  "X","E"," ","s","c","r","i","p","t",":"," ">> \o r.err.msg)
                     ELSE Write(WriteHeader(NoResponse, r.statusCode), r.body)
       IN
       /\ served' = Served(task, passed, r.calls, fo.kind, w)
       /\ tasks' = [tasks EXCEPT ![t] = IdleTask]
       /\ heap' = Release(heap, task.kernelArgs)
    /\ UNCHANGED <<options, configServerEnabled, client, phase, handler, newHandlerErr,
                   startup, urlCall, verCall>>

-----------------------------------------------------------------------------
(* The handler's life: construction, then concurrent requests *)

NoCall ==
    [done |-> FALSE, schematicID |-> <<>>, talosVersion |-> <<>>, arch |-> <<>>,
     val |-> <<>>, err |-> NoError]

NoVerCall ==
    [done |-> FALSE, versions |-> <<>>, listErr |-> NoError, val |-> <<>>, err |-> NoError]

SchematicIDs == { <<>>, <<"i","m","g","-","1">> }
ExtensionLists == { <<>>, << <<"e","x","t">> >> }
ExtraKernelArgStrings == { <<>>, <<" ">>, <<"a"," ","b"," "," ","c">> }
TalosVersions == { <<>>, <<"v","1",".","2",".","3">> }
ArchQueries == { <<>>, <<"a","r","m","6","4">>, <<"i","3","8","6">> }
ScriptNames == { <<"i","n","i","t",".","i","p","x","e">>, <<"b","o","o","t",".","i","p","x",
                   "e">>, <<"f","o","o",".","i","p","x","e">>, <<>> }

Init ==
    /\ options \in [APIAdvertiseAddress : { <<":",":","1">> },
                    APIPort             : { 50042 },
                    TalosVersion        : TalosVersions,
                    ExtraKernelArgs     : ExtraKernelArgStrings,
                    SchematicID         : SchematicIDs,
                    Extensions          : ExtensionLists]
    /\ configServerEnabled \in BOOLEAN
    /\ client \in [pxeBaseURL : { <<"h","t","t","p",":","/","/","p","x",
                                    "e">> }, secureBootEnabled : BOOLEAN]
    /\ phase = "start"
    /\ handler = NilHandler
    /\ newHandlerErr = NoError
    /\ startup = [initScript |-> <<>>, built |-> FALSE, patched |-> FALSE]
    /\ heap = <<>>
    /\ tasks = [t \in Tasks |-> IdleTask]
    /\ served = NothingServed
    /\ urlCall = NoCall
    /\ verCall = NoVerCall

Next ==
    \/ \E buildOK \in BOOLEAN, patchOK \in BOOLEAN : NewHandler(buildOK, patchOK)
    \/ \E t \in Tasks, script \in ScriptNames, archQuery \in ArchQueries :
          ServeHTTP(t, script, archQuery)
    \/ \E t \in Tasks, fo \in FactoryOutcomes \cup {NotAsked} : ServeBoot(t, fo)

Spec == Init /\ [][Next]_vars

-----------------------------------------------------------------------------
(* Direct calls of the client's pure operations *)

\* the handler is not part of these runs
NoHandlerRun ==
    /\ options = [APIAdvertiseAddress |-> <<>>, APIPort |-> 0, TalosVersion |-> <<>>,
                  ExtraKernelArgs |-> <<>>, SchematicID |-> <<>>, Extensions |-> <<>>]
    /\ configServerEnabled = FALSE
    /\ phase = "off"
    /\ handler = NilHandler
    /\ newHandlerErr = NoError
    /\ startup = [initScript |-> <<>>, built |-> FALSE, patched |-> FALSE]
    /\ heap = <<>>
    /\ tasks = [t \in Tasks |-> IdleTask]
    /\ served = NothingServed

PxeBaseURLs == { <<>>, <<"h","t","t","p",":","/","/","p","x","e">> }
URLSchematicIDs == { <<>>, <<"i","m","g","-","1">>, <<"s","c","h","-","a">> }
URLArchs == { <<>>, <<"a","r","m","6","4">>, <<"a","m","d","6","4">>, <<"i","3","8","6">> }

InitURL ==
    /\ NoHandlerRun
    /\ client \in [pxeBaseURL : PxeBaseURLs, secureBootEnabled : BOOLEAN]
    /\ urlCall \in [done : {FALSE}, schematicID : URLSchematicIDs,
                    talosVersion : TalosVersions, arch : URLArchs,
                    val : {<<>>}, err : {NoError}]
    /\ verCall = NoVerCall

CallGetIPXEURL ==
    /\ ~urlCall.done
    /\ LET r == GetIPXEURL(client, urlCall.schematicID, urlCall.talosVersion, urlCall.arch)
       IN  urlCall' = [urlCall EXCEPT !.done = TRUE, !.val = r.val, !.err = r.err]
    /\ UNCHANGED <<options, configServerEnabled, client, phase, handler, newHandlerErr,
                   startup, heap, tasks, served, verCall>>

NextURL == CallGetIPXEURL

SpecURL == InitURL /\ [][NextURL]_vars

\* version strings the image factory may list
VersionStrings ==
    { <<"v","1",".","9",".","0">>, <<"1",".","1","0",".","0">>, <<"v","1",".","1","1",".","0","-",
        "r","c",".","1">>, <<"l","a","t","e","s","t">>, <<"1",".","2">>, <<"1",".","1","0",".","0",
        "+","b","1">>, <<" ","v","0","1",".","9",".","1"," ">> }

RECURSIVE SeqsUpTo(_, _)
\* the sequences over S of length at most n
SeqsUpTo(S, n) ==
    IF n = 0 THEN { <<>> }
    ELSE LET shorter == SeqsUpTo(S, n - 1) IN
         shorter \cup { Append(q, x) : q \in shorter, x \in S }

ListingErrors == { NoError, Errorf(<<"c","o","n","t","e","x","t"," ","d","e","a","d","l","i","n",
                                     "e"," ","e","x","c","e","e","d","e","d">>) }

InitVersions ==
    /\ NoHandlerRun
    /\ client = [pxeBaseURL |-> <<>>, secureBootEnabled |-> FALSE]
    /\ urlCall = NoCall
    /\ verCall \in [done : {FALSE}, versions : SeqsUpTo(VersionStrings, MaxVersions),
                    listErr : ListingErrors, val : {<<>>}, err : {NoError}]

CallGetLatestStableVersion ==
    /\ ~verCall.done
    /\ LET r == GetLatestStableVersion([versions |-> IF verCall.listErr.nil
                                                     THEN verCall.versions ELSE <<>>,
                                        err |-> verCall.listErr])
       IN  verCall' = [verCall EXCEPT !.done = TRUE, !.val = r.val, !.err = r.err]
    /\ UNCHANGED <<options, configServerEnabled, client, phase, handler, newHandlerErr,
                   startup, heap, tasks, served, urlCall>>

NextVersions == CallGetLatestStableVersion

SpecVersions == InitVersions /\ [][NextVersions]_vars

-----------------------------------------------------------------------------
(* Properties *)

BootServed == served.done /\ served.script = <<"b","o","o","t",".","i","p","x","e">>

\* a body that holds any part of a chain-boot script
HoldsScript(body) == Contains(body, <<"#","!","i","p","x","e">>) \/ Contains(body, <<"c","h","a",
                                      "i","n"," ","-","-","r","e","p","l","a","c","e">>)

\* C1: the response to a boot.ipxe request is determined by the gateway outcome:
\* 200 with exactly the two-line chain script for the URL that GetIPXEURL returned
\* for (image identifier, configured Talos version, normalized arch) when resolution
\* (if needed) and GetIPXEURL succeed; 500 with the error's text and no script
\* otherwise, GetIPXEURL not being called after a failed resolution
C1_BootResponseDeterminedByGateway ==
    BootServed =>
        LET calls  == served.calls
            needed == options.SchematicID = <<>>
            failed == needed /\ served.factory # "ok"
            id     == IF needed THEN calls[1].val ELSE options.SchematicID
            archN  == IF served.archQuery = <<"a","r","m","6","4">> THEN <<"a","r","m","6",
                                              "4">> ELSE <<"a","m","d","6","4">>
            built  == calls[Len(calls)]
            resp   == served.resp
        IN
        /\ Len(calls) >= 1
        /\ IF failed
           THEN /\ Len(calls) = 1
                /\ calls[1].op = "EnsureSchematic"
                /\ ~calls[1].err.nil
                /\ resp.status = 500
                /\ Contains(resp.body, calls[1].err.msg)
                /\ ~HoldsScript(resp.body)
           ELSE /\ Len(calls) = (IF needed THEN 2 ELSE 1)
                /\ needed => calls[1].op = "EnsureSchematic" /\ calls[1].err.nil
                /\ built.op = "GetIPXEURL"
                /\ built.args = <<id, options.TalosVersion, archN>>
                /\ IF built.err.nil
                   THEN /\ resp.status = 200
                        /\ resp.body = <<"#","!","i","p","x","e","\n","c","h","a","i","n"," ","-",
                                         "-","r","e","p","l","a","c","e",
                                         " ">> \o built.val \o <<"\n">>
                   ELSE /\ resp.status = 500
                        /\ Contains(resp.body, built.err.msg)
                        /\ ~HoldsScript(resp.body)
        /\ ( /\ served.archQuery = <<"a","r","m","6","4">>
             /\ options.SchematicID = <<"i","m","g","-","1">>
             /\ options.TalosVersion = <<"v","1",".","2",".","3">>
             /\ ~client.secureBootEnabled )
           => /\ resp.status = 200
              /\ resp.body = <<"#","!","i","p","x","e","\n","c","h","a","i","n"," ","-","-","r","e",
                               "p","l","a","c","e"," ">> \o client.pxeBaseURL
                                \o <<"/","p","x","e","/","i","m","g","-","1","/","v","1",".","2",
                                     ".","3","/","m","e","t","a","l","-","a","r","m","6",
                                     "4">> \o <<"\n">>

\* a boot request answered 500 because GetIPXEURL failed after a successful resolution
C1_Witness ==
    /\ BootServed
    /\ served.factory = "ok"
    /\ Len(served.calls) = 2
    /\ ~served.calls[2].err.nil
    /\ served.resp.status = 500

\* C2: NewHandler returns an error and no handler when a schematic ID comes with
\* extensions or with extra kernel arguments, and when building the init script or
\* patching the binaries fails; a handler exists only once the binaries are patched,
\* and requests are handled only by such a handler
C2_HandlerOnlyAfterFullStartup ==
    /\ phase = "start" => handler.nil /\ newHandlerErr.nil
    /\ phase # "start" => (handler.nil <=> ~newHandlerErr.nil)
    /\ ( /\ phase # "start"
         /\ options.SchematicID # <<>>
         /\ (options.Extensions # <<>> \/ options.ExtraKernelArgs # <<>>) )
       => handler.nil /\ ~newHandlerErr.nil
    /\ (phase # "start" /\ ~(startup.built /\ startup.patched))
       => handler.nil /\ ~newHandlerErr.nil
    /\ ~handler.nil
       => /\ startup.built /\ startup.patched
          /\ handler.initScript = startup.initScript
          /\ handler.options = options
    /\ (served.done \/ \E t \in Tasks : tasks[t].pc # "idle")
       => ~handler.nil /\ startup.patched

\* NewHandler has refused a schematic ID given with extra kernel arguments alone
C2_Witness ==
    /\ phase = "failed"
    /\ options.SchematicID # <<>>
    /\ options.Extensions = <<>>
    /\ options.ExtraKernelArgs # <<>>
    /\ handler.nil
    /\ ~newHandlerErr.nil

\* C3: a request for any script name other than init.ipxe and boot.ipxe, the empty
\* name included, is answered 404 with an empty body and without a gateway call
C3_UnknownScriptNotFound ==
    (served.done /\ served.script \notin { <<"i","n","i","t",".","i","p","x","e">>, <<"b","o","o",
                                             "t",".","i","p","x","e">> })
        => /\ served.resp.status = 404
           /\ served.resp.body = <<>>
           /\ served.calls = <<>>
           /\ served.factory = "none"

\* the empty script name has been answered
C3_Witness ==
    /\ served.done
    /\ served.script = <<>>
    /\ served.resp.status = 404

\* C4: every init.ipxe request is answered 200 with exactly the init script built at
\* startup, whatever its query and whatever else was served or is in flight, and
\* without a gateway call
C4_InitScriptFixed ==
    (served.done /\ served.script = <<"i","n","i","t",".","i","p","x","e">>)
        => /\ served.resp.status = 200
           /\ served.resp.body = startup.initScript
           /\ startup.built
           /\ served.calls = <<>>
           /\ served.factory = "none"

\* an init.ipxe request with an arch parameter answered while a boot request is in flight
C4_Witness ==
    /\ served.done
    /\ served.script = <<"i","n","i","t",".","i","p","x","e">>
    /\ served.archQuery = <<"a","r","m","6","4">>
    /\ served.resp.body # <<>>
    /\ \E t \in Tasks : tasks[t].pc = "boot"

\* C5: GetIPXEURL fails exactly when the schematic ID, the Talos version or the arch
\* is empty, and otherwise returns <pxeBase>/pxe/<id>/<version>/metal-<arch>, followed
\* by -secureboot exactly when secure boot is enabled
C5_GetIPXEURLContract ==
    urlCall.done =>
        /\ ~urlCall.err.nil <=> \/ urlCall.schematicID = <<>>
                                \/ urlCall.talosVersion = <<>>
                                \/ urlCall.arch = <<>>
        /\ urlCall.err.nil =>
              urlCall.val = client.pxeBaseURL \o <<"/","p","x","e",
                                                   "/">> \o urlCall.schematicID \o <<"/">>
                              \o urlCall.talosVersion \o <<"/","m","e","t","a","l",
                                                           "-">> \o urlCall.arch
                              \o (IF client.secureBootEnabled THEN <<"-","s","e","c","u","r","e",
                                                                     "b","o","o","t">> ELSE <<>>)
        /\ ~urlCall.err.nil => urlCall.val = <<>>

\* GetIPXEURL has refused an empty arch, the other two arguments being given
C5_Witness ==
    /\ urlCall.done
    /\ urlCall.arch = <<>>
    /\ urlCall.schematicID # <<>>
    /\ urlCall.talosVersion # <<>>
    /\ ~urlCall.err.nil

\* the architecture bucket of a raw arch query value
Bucket(archQuery) == IF archQuery = <<"a","r","m","6","4">> THEN <<"a","r","m","6","4">> ELSE <<"a",
                                      "m","d","6","4">>

\* the kernel arguments a boot request with this arch query value is to carry
ExpectedKernelArgs(archQuery) ==
    Fields(options.ExtraKernelArgs)
      \o (IF configServerEnabled THEN << talosConfigKernelArg(options) >> ELSE <<>>)
      \o (IF Bucket(archQuery) = <<"a","r","m","6","4">>
          THEN << <<"c","o","n","s","o","l","e","=","t","t","y","0">>, <<"c","o","n","s","o","l",
                    "e","=","t","t","y","A","M","A","0">> >>
          ELSE << <<"c","o","n","s","o","l","e","=","t","t","y","0">>, <<"c","o","n","s","o","l",
                    "e","=","t","t","y","S","0">> >>)

CallsOf(op) == { i \in 1..Len(served.calls) : served.calls[i].op = op }

\* C6: for every raw arch value of a boot request, the empty one included, the
\* architecture given to GetIPXEURL and used for the console arguments is arm64 iff
\* the raw value is exactly arm64 and amd64 otherwise, hence never empty
C6_ArchTwoBuckets ==
    /\ \A t \in Tasks : tasks[t].pc = "boot" =>
          /\ tasks[t].arch = Bucket(tasks[t].archQuery)
          /\ tasks[t].arch # <<>>
    /\ BootServed =>
          /\ served.arch = Bucket(served.archQuery)
          /\ served.arch \in { <<"a","r","m","6","4">>, <<"a","m","d","6","4">> }
          /\ served.arch = <<"a","r","m","6","4">> <=> served.archQuery = <<"a","r","m","6","4">>
          /\ \A i \in CallsOf("GetIPXEURL") :
                /\ served.calls[i].args[3] = Bucket(served.archQuery)
                /\ served.calls[i].args[3] # <<>>
          /\ served.passed[Len(served.passed)] =
                (IF served.archQuery = <<"a","r","m","6","4">> THEN <<"c","o","n","s","o","l","e",
                                         "=","t","t","y","A","M","A","0">> ELSE <<"c","o","n","s",
                                         "o","l","e","=","t","t","y","S","0">>)

\* a boot request without an arch parameter has reached GetIPXEURL as amd64
C6_Witness ==
    /\ BootServed
    /\ served.archQuery = <<>>
    /\ \E i \in CallsOf("GetIPXEURL") : served.calls[i].args[3] = <<"a","m","d","6","4">>

\* C7: the kernel arguments handed to image resolution are the base arguments (the
\* whitespace-split extra kernel arguments, then the talos.config argument when the
\* config server is enabled) in order, followed by [console=tty0, console=ttyAMA0]
\* for arm64 and by [console=tty0, console=ttyS0] otherwise
C7_KernelArgsBaseThenConsole ==
    /\ \A t \in Tasks : tasks[t].pc = "boot" =>
          SliceVal(heap, tasks[t].kernelArgs) = ExpectedKernelArgs(tasks[t].archQuery)
    /\ BootServed =>
          /\ served.passed = ExpectedKernelArgs(served.archQuery)
          /\ \A i \in CallsOf("EnsureSchematic") :
                served.calls[i].args = <<options.Extensions, ExpectedKernelArgs(served.archQuery)>>
          /\ (options.ExtraKernelArgs = <<"a"," ","b"," "," ","c">> /\ configServerEnabled) =>
                served.passed =
                    << <<"a">>, <<"b">>, <<"c">>, <<"t","a","l","o","s",".","c","o","n","f","i","g",
                         "=","h","t","t","p",":","/","/","[",":",":","1","]",":","5","0","0","4","2","/","c","o","n","f","i","g","?","u","=","$","{","u","u","i","d","}">>,
                       <<"c","o","n","s","o","l","e","=","t","t","y","0">>,
                       IF served.archQuery = <<"a","r","m","6","4">> THEN <<"c","o","n","s","o","l",
                                               "e","=","t","t","y","A","M","A","0">> ELSE <<"c","o",
                                               "n","s","o","l","e","=","t","t","y","S","0">> >>

\* an arm64 boot request had three extra arguments and the talos.config argument resolved
C7_Witness ==
    /\ BootServed
    /\ served.archQuery = <<"a","r","m","6","4">>
    /\ options.ExtraKernelArgs = <<"a"," ","b"," "," ","c">>
    /\ configServerEnabled
    /\ CallsOf("EnsureSchematic") # {}
    /\ Len(served.passed) = 6

\* the core of a version: major, minor, patch
C8_Core(v) == <<v.Major, v.Minor, v.Patch>>

\* lexicographic order on cores
C8_Less(a, b) ==
    \/ a[1] < b[1]
    \/ a[1] = b[1] /\ a[2] < b[2]
    \/ a[1] = b[1] /\ a[2] = b[2] /\ a[3] < b[3]

\* the listing as the service reported it
C8_Listing == IF verCall.listErr.nil THEN verCall.versions ELSE <<>>

\* the entries that parse and carry no pre-release component
C8_Stable ==
    { i \in 1..Len(C8_Listing) :
        /\ ParseTolerant(C8_Listing[i]).ok
        /\ ParseTolerant(C8_Listing[i]).v.Pre = <<>> }

C8_IsStable(str) == ParseTolerant(str).ok /\ ParseTolerant(str).v.Pre = <<>>

\* C8: GetLatestStableVersion returns the semver maximum of the listed entries that
\* parse and have no pre-release part; the other entries have no influence; it fails
\* exactly when the listing fails or no stable entry exists
C8_LatestStableIsMaxStable ==
    verCall.done =>
        /\ ~verCall.err.nil <=> (~verCall.listErr.nil \/ C8_Stable = {})
        /\ ~verCall.listErr.nil => verCall.err = verCall.listErr
        /\ verCall.err.nil =>
              /\ \E i \in C8_Stable :
                    /\ verCall.val = VersionString(ParseTolerant(C8_Listing[i]).v)
                    /\ \A j \in C8_Stable :
                          ~C8_Less(C8_Core(ParseTolerant(C8_Listing[i]).v),
                                   C8_Core(ParseTolerant(C8_Listing[j]).v))
              /\ ParseTolerant(verCall.val).ok
              /\ ParseTolerant(verCall.val).v.Pre = <<>>
        /\ LET kept == SelectSeq(C8_Listing, C8_IsStable)
               r    == GetLatestStableVersion([versions |-> kept, err |-> verCall.listErr])
           IN  verCall.val = r.val /\ verCall.err = r.err

\* a stable version was returned from a listing that also held a newer pre-release
\* and an entry that does not parse
C8_Witness ==
    /\ verCall.done
    /\ verCall.err.nil
    /\ \E i \in 1..Len(verCall.versions) : ~ParseTolerant(verCall.versions[i]).ok
    /\ \E i \in 1..Len(verCall.versions) :
          /\ ParseTolerant(verCall.versions[i]).ok
          /\ ParseTolerant(verCall.versions[i]).v.Pre # <<>>
          /\ C8_Less(C8_Core(ParseTolerant(verCall.val).v),
                     C8_Core(ParseTolerant(verCall.versions[i]).v))

\* C9: per boot request, with a configured schematic ID EnsureSchematic is not called
\* and GetIPXEURL gets that ID; otherwise EnsureSchematic is called exactly once, also
\* when the request before resolved the same customization and also when it fails,
\* and GetIPXEURL is called at most once, only after a successful EnsureSchematic and
\* with the ID it returned
C9_GatewayCallPattern ==
    BootServed =>
        LET calls == served.calls IN
        /\ Cardinality(CallsOf("GetIPXEURL")) <= 1
        /\ \A i \in CallsOf("GetIPXEURL") : i = Len(calls)
        /\ IF options.SchematicID # <<>>
           THEN /\ CallsOf("EnsureSchematic") = {}
                /\ Len(calls) = 1
                /\ calls[1].op = "GetIPXEURL"
                /\ calls[1].args[1] = options.SchematicID
           ELSE /\ CallsOf("EnsureSchematic") = {1}
                /\ calls[1].args = <<options.Extensions, served.passed>>
                /\ (served.factory = "ok") <=> calls[1].err.nil
                /\ CallsOf("GetIPXEURL") # {} <=> calls[1].err.nil
                /\ \A i \in CallsOf("GetIPXEURL") : calls[i].args[1] = calls[1].val
        /\ served.repeated => Cardinality(CallsOf("EnsureSchematic")) = 1

\* the factory was asked again for a customization that the request before had resolved
C9_Witness ==
    /\ BootServed
    /\ served.repeated
    /\ CallsOf("EnsureSchematic") = {1}
    /\ served.calls[1].err.nil

\* the requests in flight
InFlight == { t \in Tasks : tasks[t].pc = "boot" }

\* what requests leave alone: the handler with its options, init script and base
\* kernel arguments, and the arguments of the other requests in flight
C10_Untouched ==
    phase = "serving" =>
        /\ handler' = handler
        /\ options' = options
        /\ startup' = startup
        /\ handler.kernelArgs.arr # 0 =>
              /\ handler.kernelArgs.arr \in DOMAIN heap'
              /\ heap'[handler.kernelArgs.arr] = heap[handler.kernelArgs.arr]
        /\ \A t \in InFlight : tasks'[t].pc = "boot" =>
              /\ tasks'[t] = tasks[t]
              /\ SliceVal(heap', tasks[t].kernelArgs) = SliceVal(heap, tasks[t].kernelArgs)

C10_Isolated ==
    phase = "serving" =>
        /\ handler.options = options
        /\ handler.initScript = startup.initScript
        /\ SliceVal(heap, handler.kernelArgs) =
              Fields(options.ExtraKernelArgs)
                \o (IF configServerEnabled THEN << talosConfigKernelArg(options) >> ELSE <<>>)
        /\ \A t \in InFlight :
              /\ tasks[t].kernelArgs.arr # handler.kernelArgs.arr
              /\ \A u \in InFlight \ {t} : tasks[u].kernelArgs.arr # tasks[t].kernelArgs.arr
              /\ SliceVal(heap, tasks[t].kernelArgs) = ExpectedKernelArgs(tasks[t].archQuery)
        /\ BootServed =>
              /\ served.resp.status = 500 <=> \E i \in 1..Len(served.calls) : ~served.calls[i].err.nil
              /\ served.resp.status = 200 <=> \A i \in 1..Len(served.calls) : served.calls[i].err.nil
              /\ served.resp.status = 200 =>
                    Contains(served.resp.body, <<"/","m","e","t","a","l",
                                                 "-">> \o Bucket(served.archQuery))

\* C10: under any interleaving no request changes the handler's shared state, the
\* kernel arguments of a request are a copy that shares no backing array with the
\* base arguments or with another request, and the status and body of a request
\* depend on its own gateway calls only
C10_RequestsShareNothingMutable == [][C10_Untouched]_vars /\ []C10_Isolated

\* a failed request was answered while two requests for different architectures are
\* in flight and the base arguments have spare capacity behind them
C10_Witness ==
    /\ BootServed
    /\ served.resp.status = 500
    /\ handler.kernelArgs.cap >= handler.kernelArgs.len + 2
    /\ \E t \in InFlight, u \in InFlight : tasks[t].arch # tasks[u].arch

====
